---- MODULE Spec2Model ----
(***************************************************************************)
(* Immutable singly-linked list with structural sharing (LinkedList.h),    *)
(* the free functions SplitAt and Reverse (Utils.h) and the two-list Deque *)
(* (Deque.h), over an explicit heap of nodes.                              *)
(*                                                                         *)
(* A node is a record [has_value, value, next]; has_value/value is the     *)
(* std::optional<T> value_, next is the shared_ptr next_.  A list value is *)
(* a pointer: nullptr (0) or the address of a node (an index of the heap). *)
(* Every operation is an operator from a heap to a record holding the      *)
(* heap after the call, what the call returned and the exception it threw  *)
(* ("none" when it returned normally).                                     *)
(***************************************************************************)
EXTENDS Integers, Sequences, FiniteSets, TLC

VARIABLES client, heap, la, lb, d, e, rd, re, res, ops,
          use_count, destroyed, lists

vars == <<client, heap, la, lb, d, e, rd, re, res, ops,
          use_count, destroyed, lists>>

\* Bounds of the model.
MaxLen == 3
MaxOps == 4

Elem == {1, 2}

nullptr == 0

----------------------------------------------------------------------------
(* LinkedList.h *)

Node(has, v, n) == [has_value |-> has, value |-> v, next |-> n]

\* std::make_shared<LinkedList<T>>(value, next): a new node at a new address.
MakeShared(h, has, v, n) ==
  [heap |-> Append(h, Node(has, v, n)), ptr |-> Len(h) + 1, err |-> "none"]

ListIsEmpty(h, list) == list = nullptr \/ ~h[list].has_value

ListHead(h, list) ==
  IF ListIsEmpty(h, list)
  THEN [val |-> 0, err |-> "runtime_error"]
  ELSE [val |-> h[list].value, err |-> "none"]

ListTail(h, list) ==
  IF ListIsEmpty(h, list)
  THEN [heap |-> h, ptr |-> nullptr, err |-> "runtime_error"]
  ELSE [heap |-> h, ptr |-> h[list].next, err |-> "none"]

ListIsSingle(h, list) ==
  IF ListIsEmpty(h, list) THEN FALSE ELSE ListIsEmpty(h, h[list].next)

RECURSIVE LengthLoop(_, _, _)
LengthLoop(h, cur, count) ==
  IF ListIsEmpty(h, cur) THEN count ELSE LengthLoop(h, h[cur].next, count + 1)

ListLength(h, list) == LengthLoop(h, list, 0)

ListEmpty(h) == MakeShared(h, FALSE, 0, nullptr)

ListCons(h, element, list) == MakeShared(h, TRUE, element, list)

ListSingle(h, element) ==
  LET emp == ListEmpty(h) IN ListCons(emp.heap, element, emp.ptr)

\* The loop of Init: while (!IsSingle(cur)).  cur->value_.value() on nullptr
\* is undefined behaviour, on an empty node it throws bad_optional_access
\* (before Single is called, so before any write).
RECURSIVE InitLoop(_, _, _)
InitLoop(h, tail, cur) ==
  IF ListIsSingle(h, cur) THEN [heap |-> h, tail |-> tail, err |-> "none"]
  ELSE IF cur = nullptr THEN [heap |-> h, tail |-> tail, err |-> "undefined"]
  ELSE IF ~h[cur].has_value
  THEN [heap |-> h, tail |-> tail, err |-> "bad_optional_access"]
  ELSE LET s  == ListSingle(h, h[cur].value)
           h2 == [s.heap EXCEPT ![tail].next = s.ptr]
       IN InitLoop(h2, s.ptr, h2[cur].next)

\* Init as a truncation in place: the node before the last is cut off from it.
RECURSIVE TruncateLoop(_, _)
TruncateLoop(h, cur) ==
  IF ListIsSingle(h, h[cur].next)
  THEN LET emp == ListEmpty(h)
       IN [emp.heap EXCEPT ![cur].next = emp.ptr]
  ELSE TruncateLoop(h, h[cur].next)

ListInitInPlace(h, list) ==
  IF list = nullptr THEN [heap |-> h, ptr |-> nullptr, err |-> "undefined"]
  ELSE IF ~h[list].has_value
  THEN [heap |-> h, ptr |-> nullptr, err |-> "bad_optional_access"]
  ELSE IF ListIsSingle(h, list) THEN ListEmpty(h)
  ELSE [heap |-> TruncateLoop(h, list), ptr |-> list, err |-> "none"]

ListInit(h, list) ==
  LET head == ListEmpty(h)
      r    == InitLoop(head.heap, head.ptr, list)
  IN IF r.err # "none"
     THEN [heap |-> r.heap, ptr |-> nullptr, err |-> r.err]
     ELSE LET emp == ListEmpty(r.heap)
              h3  == [emp.heap EXCEPT ![r.tail].next = emp.ptr]
          IN [heap |-> h3, ptr |-> h3[head.ptr].next, err |-> "none"]

RECURSIVE LastLoop(_, _)
LastLoop(h, cur) ==
  IF ListIsSingle(h, cur) THEN h[cur].value ELSE LastLoop(h, h[cur].next)

ListLast(h, list) ==
  IF ListIsEmpty(h, list)
  THEN [val |-> 0, err |-> "runtime_error"]
  ELSE [val |-> LastLoop(h, list), err |-> "none"]

\* The loop of Append: while (!IsEmpty(cur)).
RECURSIVE AppendLoop(_, _, _)
AppendLoop(h, tail, cur) ==
  IF ListIsEmpty(h, cur) THEN [heap |-> h, tail |-> tail]
  ELSE LET s  == ListSingle(h, h[cur].value)
           h2 == [s.heap EXCEPT ![tail].next = s.ptr]
       IN AppendLoop(h2, s.ptr, h2[cur].next)

\* Append that ends the rebuilt chain with a new empty node, as Init does.
ListAppendDropB(h, listA, listB) ==
  LET head == ListEmpty(h)
      r    == AppendLoop(head.heap, head.ptr, listA)
      emp  == ListEmpty(r.heap)
      h3   == [emp.heap EXCEPT ![r.tail].next = emp.ptr]
  IN [heap |-> h3, ptr |-> h3[head.ptr].next, err |-> "none"]

ListAppend(h, listA, listB) ==
  LET head == ListEmpty(h)
      r    == AppendLoop(head.heap, head.ptr, listA)
      h3   == [r.heap EXCEPT ![r.tail].next = listB]
  IN [heap |-> h3, ptr |-> h3[head.ptr].next, err |-> "none"]

ListSnoc(h, list, element) ==
  LET s == ListSingle(h, element) IN ListAppend(s.heap, list, s.ptr)

RECURSIVE IndexLoop(_, _, _)
IndexLoop(h, cur, index) ==
  IF index >= 0 /\ ~ListIsEmpty(h, cur)
  THEN IF index = 0 THEN ListHead(h, cur)
       ELSE IndexLoop(h, h[cur].next, index - 1)
  ELSE [val |-> 0, err |-> "out_of_range"]

ListIndex(h, list, index) ==
  IF index < 0 THEN [val |-> 0, err |-> "out_of_range"]
  ELSE IndexLoop(h, list, index)

----------------------------------------------------------------------------
(* Utils.h *)

\* SplitAt evaluates SplitAt(n - 1, list.Tail()) first, then list.Head().
RECURSIVE SplitAt(_, _, _)
SplitAt(h, n, list) ==
  IF n < 0
  THEN [heap |-> h, first |-> nullptr, second |-> nullptr, err |-> "out_of_range"]
  ELSE IF n = 0
  THEN LET emp == ListEmpty(h)
       IN [heap |-> emp.heap, first |-> emp.ptr, second |-> list, err |-> "none"]
  ELSE LET t == ListTail(h, list)
       IN IF t.err # "none"
          THEN [heap |-> h, first |-> nullptr, second |-> nullptr, err |-> t.err]
          ELSE LET r == SplitAt(h, n - 1, t.ptr)
               IN IF r.err # "none" THEN r
                  ELSE LET c == ListCons(r.heap, ListHead(r.heap, list).val, r.first)
                       IN [heap |-> c.heap, first |-> c.ptr,
                           second |-> r.second, err |-> "none"]

RECURSIVE ReverseLoop(_, _, _)
ReverseLoop(h, reversed_list, list) ==
  IF ListIsEmpty(h, list)
  THEN [heap |-> h, ptr |-> reversed_list, err |-> "none"]
  ELSE LET c == ListCons(h, ListHead(h, list).val, reversed_list)
       IN ReverseLoop(c.heap, c.ptr, ListTail(c.heap, list).ptr)

Reverse(h, list) ==
  LET emp == ListEmpty(h) IN ReverseLoop(emp.heap, emp.ptr, list)

----------------------------------------------------------------------------
(* Deque.h.  A Deque value is the pair of its two list pointers.  Deque.h and *)
(* Utils.h call the list through members (front_.Tail(), list.Cons(x)):      *)
(* each is the LinkedList.h function of that name applied to the receiver.   *)

Deque(front, back) == [front_ |-> front, back_ |-> back]

NoDeque == Deque(nullptr, nullptr)

DequeIsEmpty(h, dq) == ListIsEmpty(h, dq.front_) /\ ListIsEmpty(h, dq.back_)

DequeIsSingle(h, dq) ==
  ~DequeIsEmpty(h, dq) /\ (ListIsEmpty(h, dq.front_) \/ ListIsEmpty(h, dq.back_))

DequeLength(h, dq) == ListLength(h, dq.front_) + ListLength(h, dq.back_)

RebalancedIfNecessary(h, dq) ==
  IF \/ DequeIsEmpty(h, dq)
     \/ DequeIsSingle(h, dq)
     \/ (~ListIsEmpty(h, dq.front_) /\ ~ListIsEmpty(h, dq.back_))
  THEN [heap |-> h, dq |-> dq, err |-> "none"]
  ELSE IF ListIsEmpty(h, dq.front_)
  THEN LET s == SplitAt(h, ListLength(h, dq.back_) \div 2, dq.back_)
       IN IF s.err # "none" THEN [heap |-> s.heap, dq |-> NoDeque, err |-> s.err]
          ELSE LET r == Reverse(s.heap, s.second)
               IN [heap |-> r.heap, dq |-> Deque(r.ptr, s.first), err |-> "none"]
  ELSE LET s == SplitAt(h, ListLength(h, dq.front_) \div 2, dq.front_)
       IN IF s.err # "none" THEN [heap |-> s.heap, dq |-> NoDeque, err |-> s.err]
          ELSE LET r == Reverse(s.heap, s.second)
               IN [heap |-> r.heap, dq |-> Deque(s.first, r.ptr), err |-> "none"]

\* FromList that keeps the second half in list order.
FromListUnreversed(h, list) ==
  LET s == SplitAt(h, ListLength(h, list) \div 2, list)
  IN IF s.err # "none" THEN [heap |-> s.heap, dq |-> NoDeque, err |-> s.err]
     ELSE [heap |-> s.heap, dq |-> Deque(s.first, s.second), err |-> "none"]

FromList(h, list) ==
  LET s == SplitAt(h, ListLength(h, list) \div 2, list)
  IN IF s.err # "none" THEN [heap |-> s.heap, dq |-> NoDeque, err |-> s.err]
     ELSE LET r == Reverse(s.heap, s.second)
          IN [heap |-> r.heap, dq |-> Deque(s.first, r.ptr), err |-> "none"]

ToList(h, dq) ==
  LET r == Reverse(h, dq.back_) IN ListAppend(r.heap, dq.front_, r.ptr)

DequeEmpty(h) ==
  LET f == ListEmpty(h)
      b == ListEmpty(f.heap)
  IN [heap |-> b.heap, dq |-> Deque(f.ptr, b.ptr), err |-> "none"]

DequeSingle(h, element) ==
  LET f == ListSingle(h, element)
      b == ListEmpty(f.heap)
  IN [heap |-> b.heap, dq |-> Deque(f.ptr, b.ptr), err |-> "none"]

DequeCons(h, dq, element) ==
  IF ListIsEmpty(h, dq.back_)
  THEN LET s == ListSingle(h, element)
       IN [heap |-> s.heap, dq |-> Deque(s.ptr, dq.front_), err |-> "none"]
  ELSE LET c == ListCons(h, element, dq.front_)
       IN [heap |-> c.heap, dq |-> Deque(c.ptr, dq.back_), err |-> "none"]

DequeSnoc(h, dq, element) ==
  IF ListIsEmpty(h, dq.front_)
  THEN LET s == ListSingle(h, element)
       IN [heap |-> s.heap, dq |-> Deque(dq.back_, s.ptr), err |-> "none"]
  ELSE LET c == ListCons(h, element, dq.back_)
       IN [heap |-> c.heap, dq |-> Deque(dq.front_, c.ptr), err |-> "none"]

DequeHead(h, dq) ==
  IF DequeIsEmpty(h, dq) THEN [val |-> 0, err |-> "invalid_argument"]
  ELSE IF ~ListIsEmpty(h, dq.front_) THEN ListHead(h, dq.front_)
  ELSE ListLast(h, dq.back_)

\* The deque Tail hands to RebalancedIfNecessary, or NoDeque when it returns
\* before that call.
TailUnbalanced(h, dq) ==
  IF DequeIsEmpty(h, dq) \/ ListIsEmpty(h, dq.front_) \/ ListIsEmpty(h, dq.back_)
  THEN NoDeque
  ELSE Deque(ListTail(h, dq.front_).ptr, dq.back_)

\* Tail without its test of IsEmpty().
DequeTailUnchecked(h, dq) ==
  IF ListIsEmpty(h, dq.front_) \/ ListIsEmpty(h, dq.back_)
  THEN DequeEmpty(h)
  ELSE RebalancedIfNecessary(h, TailUnbalanced(h, dq))

DequeTail(h, dq) ==
  IF DequeIsEmpty(h, dq)
  THEN [heap |-> h, dq |-> NoDeque, err |-> "invalid_argument"]
  ELSE IF ListIsEmpty(h, dq.front_) \/ ListIsEmpty(h, dq.back_)
  THEN DequeEmpty(h)
  ELSE RebalancedIfNecessary(h, TailUnbalanced(h, dq))

\* The deque Init hands to RebalancedIfNecessary, or NoDeque.
InitUnbalanced(h, dq) ==
  IF DequeIsEmpty(h, dq) \/ ListIsEmpty(h, dq.front_) \/ ListIsEmpty(h, dq.back_)
  THEN NoDeque
  ELSE Deque(dq.front_, ListTail(h, dq.back_).ptr)

DequeInit(h, dq) ==
  IF DequeIsEmpty(h, dq)
  THEN [heap |-> h, dq |-> NoDeque, err |-> "invalid_argument"]
  ELSE IF ListIsEmpty(h, dq.front_) \/ ListIsEmpty(h, dq.back_)
  THEN DequeEmpty(h)
  ELSE RebalancedIfNecessary(h, InitUnbalanced(h, dq))

DequeLast(h, dq) ==
  IF DequeIsEmpty(h, dq) THEN [val |-> 0, err |-> "invalid_argument"]
  ELSE IF ~ListIsEmpty(h, dq.back_) THEN ListHead(h, dq.back_)
  ELSE ListLast(h, dq.front_)

DequeAppend(h, dq, listB) ==
  LET a == ToList(h, dq)
      b == ToList(a.heap, listB)
      c == ListAppend(b.heap, a.ptr, b.ptr)
  IN FromList(c.heap, c.ptr)

\* Index that counts inside back_ from its head.
DequeIndexForward(h, dq, index) ==
  IF index < 0 THEN [val |-> 0, err |-> "out_of_range"]
  ELSE LET front_length == ListLength(h, dq.front_)
       IN IF index < front_length THEN ListIndex(h, dq.front_, index)
          ELSE ListIndex(h, dq.back_, index - front_length)

DequeIndex(h, dq, index) ==
  IF index < 0 THEN [val |-> 0, err |-> "out_of_range"]
  ELSE LET front_length == ListLength(h, dq.front_)
       IN IF index < front_length THEN ListIndex(h, dq.front_, index)
          ELSE LET index2      == index - front_length
                   back_length == ListLength(h, dq.back_)
               IN IF index2 < back_length
                  THEN ListIndex(h, dq.back_, back_length - 1 - index2)
                  ELSE [val |-> 0, err |-> "out_of_range"]

----------------------------------------------------------------------------
(* The clients: the two test programs, each a sequence of calls on its     *)
(* variables.  LinkedListTests.cpp holds lists la and lb; DequeTests.cpp   *)
(* holds deques d and e, and beside them the plain sequences rd and re on  *)
(* which the same operations are run.  res records the last call.          *)

\* to_vector: the elements read with IsEmpty, Head and Tail.
RECURSIVE ToSeq(_, _)
ToSeq(h, list) ==
  IF ListIsEmpty(h, list) THEN <<>>
  ELSE <<ListHead(h, list).val>> \o ToSeq(h, ListTail(h, list).ptr)

\* to_vector of a deque: through ToList().
DequeToSeq(h, dq) == LET t == ToList(h, dq) IN ToSeq(t.heap, t.ptr)

IndexRange == (0 - 2)..(MaxLen + 1)

\* What a read through a null pointer can do.
UndefinedOutcomes == {"segfault", "bad_optional_access"}

Outcomes(err) == IF err = "undefined" THEN UndefinedOutcomes ELSE {err}

\* The record of a call: its name, the exception it threw, the elements of its
\* receiver before the call, the elements of its list or deque argument, its
\* element argument, and the deque it handed to RebalancedIfNecessary.
Res(op, err, recv, arg, x, mid) ==
  [op |-> op, err |-> err, recv |-> recv, arg |-> arg, x |-> x, mid |-> mid]

Running == res.err # "segfault"

Init ==
  /\ client \in {"list", "deque"}
  /\ ops = 0
  /\ use_count = <<>> /\ destroyed = <<>> /\ lists = <<>>
  /\ res = Res("start", "none", <<>>, <<>>, 0, NoDeque)
  /\ IF client = "list"
     THEN /\ heap = ListEmpty(<<>>).heap
          /\ la \in {nullptr, ListEmpty(<<>>).ptr}
          /\ lb = nullptr
          /\ d = NoDeque /\ e = NoDeque /\ rd = <<>> /\ re = <<>>
     ELSE /\ \E c \in {DequeEmpty(<<>>)} \cup {DequeSingle(<<>>, x) : x \in Elem} :
               /\ heap = c.heap
               /\ d = c.dq
               /\ e = c.dq
               /\ rd = DequeToSeq(c.heap, c.dq)
               /\ re = DequeToSeq(c.heap, c.dq)
          /\ la = nullptr /\ lb = nullptr

DequeVars == <<d, e, rd, re>>

\* The reference counts, used by the reclamation client alone.
ReclaimVars == <<use_count, destroyed, lists>>

\* A list call whose result is assigned to la: la = call(...).
ListCall(op, r, arg, x) ==
  /\ \E o \in Outcomes(r.err) :
       res' = Res(op, o, ToSeq(heap, la), arg, x, NoDeque)
  /\ heap' = r.heap
  /\ la' = IF r.err = "none" THEN r.ptr ELSE la
  /\ ops' = ops + 1
  /\ UNCHANGED <<client, lb, DequeVars, ReclaimVars>>

LCons(x) ==
  /\ client = "list" /\ Running /\ ops < MaxOps
  /\ ListLength(heap, la) < MaxLen
  /\ ListCall("Cons", ListCons(heap, x, la), <<>>, x)

LTail ==
  /\ client = "list" /\ Running /\ ops < MaxOps
  /\ ListCall("Tail", ListTail(heap, la), <<>>, 0)

LInit ==
  /\ client = "list" /\ Running /\ ops < MaxOps
  /\ ListCall("Init", ListInit(heap, la), <<>>, 0)

LSnoc(x) ==
  /\ client = "list" /\ Running /\ ops < MaxOps
  /\ ListLength(heap, la) < MaxLen
  /\ ListCall("Snoc", ListSnoc(heap, la, x), <<>>, x)

\* la = la.Append(lb)
LAppend ==
  /\ client = "list" /\ Running /\ ops < MaxOps
  /\ ListLength(heap, la) + ListLength(heap, lb) <= MaxLen
  /\ ListCall("Append", ListAppend(heap, la, lb), ToSeq(heap, lb), 0)

\* la = Deque::FromList(la).ToList()
LRoundTrip ==
  /\ client = "list" /\ Running /\ ops < MaxOps
  /\ LET f == FromList(heap, la)
     IN ListCall("FromList.ToList",
                 IF f.err # "none" THEN [heap |-> f.heap, ptr |-> nullptr, err |-> f.err]
                 ELSE ToList(f.heap, f.dq), <<>>, 0)

\* Copy assignment: lb = la.
LCopy ==
  /\ client = "list" /\ Running
  /\ lb' = la
  /\ UNCHANGED <<client, heap, la, DequeVars, res, ops, ReclaimVars>>

\* A deque call whose result is assigned to d: d = d.call(...).  mid is the
\* deque the call handed to RebalancedIfNecessary; ref is the same operation
\* on the plain sequence rd.
DequeCall(op, r, arg, x, mid, ref) ==
  /\ res' = Res(op, r.err, DequeToSeq(heap, d), arg, x, mid)
  /\ heap' = r.heap
  /\ d' = IF r.err = "none" THEN r.dq ELSE d
  /\ rd' = ref
  /\ ops' = ops + 1
  /\ UNCHANGED <<client, la, lb, e, re, ReclaimVars>>

DCons(x) ==
  /\ client = "deque" /\ Running /\ ops < MaxOps
  /\ Len(rd) < MaxLen
  /\ DequeCall("Cons", DequeCons(heap, d, x), <<>>, x, NoDeque, <<x>> \o rd)

DSnoc(x) ==
  /\ client = "deque" /\ Running /\ ops < MaxOps
  /\ Len(rd) < MaxLen
  /\ DequeCall("Snoc", DequeSnoc(heap, d, x), <<>>, x, NoDeque, Append(rd, x))

DTail ==
  /\ client = "deque" /\ Running /\ ops < MaxOps
  /\ DequeCall("Tail", DequeTail(heap, d), <<>>, 0, TailUnbalanced(heap, d),
               IF rd = <<>> THEN rd ELSE Tail(rd))

DInit ==
  /\ client = "deque" /\ Running /\ ops < MaxOps
  /\ DequeCall("Init", DequeInit(heap, d), <<>>, 0, InitUnbalanced(heap, d),
               IF rd = <<>> THEN rd ELSE SubSeq(rd, 1, Len(rd) - 1))

\* d = d.Append(e)
DAppend ==
  /\ client = "deque" /\ Running /\ ops < MaxOps
  /\ Len(rd) + Len(re) <= MaxLen
  /\ DequeCall("Append", DequeAppend(heap, d, e), DequeToSeq(heap, e), 0,
               NoDeque, rd \o re)

\* Copy assignment: e = d.
DCopy ==
  /\ client = "deque" /\ Running
  /\ e' = d
  /\ re' = rd
  /\ UNCHANGED <<client, heap, la, lb, d, rd, res, ops, ReclaimVars>>

Next ==
  \/ \E x \in Elem : LCons(x)
  \/ LTail
  \/ LInit
  \/ \E x \in Elem : LSnoc(x)
  \/ LAppend
  \/ LRoundTrip
  \/ LCopy
  \/ \E x \in Elem : DCons(x)
  \/ \E x \in Elem : DSnoc(x)
  \/ DTail
  \/ DInit
  \/ DAppend
  \/ DCopy

Spec == Init /\ [][Next]_vars

----------------------------------------------------------------------------
(* Claims *)

BothNonEmpty(h, dq) == ~ListIsEmpty(h, dq.front_) /\ ~ListIsEmpty(h, dq.back_)

\* The reversal of a plain sequence.
Rev(s) == [i \in 1..Len(s) |-> s[Len(s) + 1 - i]]

\* C1: every deque reachable from Empty()/Single() by Cons, Snoc, Tail, Init
\* and Append has both internal lists non-empty or holds at most one element.
C1_BalanceInvariant ==
  client = "deque" =>
    \A q \in {d, e} : BothNonEmpty(heap, q) \/ DequeLength(heap, q) <= 1

\* C2: after every step of Cons, Snoc, Tail, Init and Append, run side by side
\* on the deque d and on the plain sequence rd, d.ToList() reads as rd,
\* Length() is its length, and Head() and Last() are its first and last element.
C2_DequeListEquivalence ==
  client = "deque" =>
    /\ DequeToSeq(heap, d) = rd
    /\ DequeLength(heap, d) = Len(rd)
    /\ rd # <<>> =>
         /\ DequeHead(heap, d) = [val |-> rd[1], err |-> "none"]
         /\ DequeLast(heap, d) = [val |-> rd[Len(rd)], err |-> "none"]


\* C3: no call changes a node that existed before it: every write to next_
\* made by Append and Init (and by every call built on them) lands on a node
\* allocated during that call, so every list and deque value that existed
\* before the call, the receiver and the arguments included, reads the same
\* elements after it, whether the call returned or threw.
C3_Immutability ==
  [][/\ Len(heap') >= Len(heap)
     /\ \A n \in 1..Len(heap) : heap'[n] = heap[n]
     /\ \A p \in 0..Len(heap) : ToSeq(heap', p) = ToSeq(heap, p)
     /\ \A q \in {d, e} :
          client = "deque" => DequeToSeq(heap', q) = DequeToSeq(heap, q)
     /\ res'.err # "none" => (la' = la /\ d' = d)]_vars

\* Append has run on a non-empty receiver with a non-empty argument that
\* the result shares.
C3_Witness ==
  /\ client = "list" /\ res.op = "Append" /\ res.err = "none"
  /\ Len(res.recv) >= 1
  /\ Len(res.arg) >= 1

\* C4: Head, Tail and Last throw on an empty list (std::runtime_error) and
\* Head, Tail, Last and Init throw on an empty deque (std::invalid_argument):
\* the EmptyCollection error; on every non-empty reachable receiver they return.
C4_EmptyReceiverErrors ==
  /\ client = "list" =>
       /\ \A l \in {la, lb, nullptr} :
            LET want == IF ToSeq(heap, l) = <<>> THEN "runtime_error" ELSE "none"
            IN /\ ListHead(heap, l).err = want
               /\ ListTail(heap, l).err = want
               /\ ListLast(heap, l).err = want
       /\ res.op = "Tail" =>
            res.err = IF res.recv = <<>> THEN "runtime_error" ELSE "none"
  /\ client = "deque" =>
       /\ \A q \in {d, e} :
            LET want == IF DequeToSeq(heap, q) = <<>> THEN "invalid_argument"
                        ELSE "none"
            IN /\ DequeHead(heap, q).err = want
               /\ DequeTail(heap, q).err = want
               /\ DequeLast(heap, q).err = want
               /\ DequeInit(heap, q).err = want
       /\ res.op \in {"Tail", "Init"} =>
            res.err = IF res.recv = <<>> THEN "invalid_argument" ELSE "none"

\* Tail has thrown on an empty deque.
C4_Witness ==
  client = "deque" /\ res.op = "Tail" /\ res.err = "invalid_argument"

\* C5: list Init throws on an empty list what Head, Tail and Last throw there,
\* returns the empty list on a one-element list, and the first n-1 elements
\* on a list of n >= 2.
C5_ListInit ==
  (client = "list" /\ res.op = "Init") =>
    LET n == Len(res.recv)
    IN /\ n = 0 => /\ res.err = ListHead(heap, la).err
                   /\ res.err = ListTail(heap, la).err
                   /\ res.err = ListLast(heap, la).err
       /\ n >= 1 => /\ res.err = "none"
                    /\ ToSeq(heap, la) = SubSeq(res.recv, 1, n - 1)

\* The part of C5 that holds: Init on a non-empty list.
C5_InitNonEmpty ==
  (client = "list" /\ res.op = "Init" /\ res.recv # <<>>) =>
    /\ res.err = "none"
    /\ ToSeq(heap, la) = SubSeq(res.recv, 1, Len(res.recv) - 1)

\* C6: Index(i) returns the element at position i of the elements read (for
\* a deque: of ToList(), found at back_length - 1 - (i - front_length) inside
\* back_ once i >= front_length) when 0 <= i < Length(), and throws
\* std::out_of_range exactly when i < 0 or i >= Length().
C6_Index ==
  /\ client = "list" =>
       \A l \in {la, lb, nullptr} : \A i \in IndexRange :
         LET s == ToSeq(heap, l)
         IN ListIndex(heap, l, i) =
              IF 0 <= i /\ i < ListLength(heap, l)
              THEN [val |-> s[i + 1], err |-> "none"]
              ELSE [val |-> 0, err |-> "out_of_range"]
  /\ client = "deque" =>
       \A q \in {d, e} : \A i \in IndexRange :
         LET s  == DequeToSeq(heap, q)
             fl == ListLength(heap, q.front_)
             bl == ListLength(heap, q.back_)
         IN /\ DequeIndex(heap, q, i) =
                 IF 0 <= i /\ i < DequeLength(heap, q)
                 THEN [val |-> s[i + 1], err |-> "none"]
                 ELSE [val |-> 0, err |-> "out_of_range"]
            /\ (fl <= i /\ i < fl + bl) =>
                 DequeIndex(heap, q, i).val =
                   ToSeq(heap, q.back_)[(bl - 1 - (i - fl)) + 1]

\* A deque whose back_ holds two elements or more, behind a non-empty front_.
C6_Witness ==
  /\ client = "deque"
  /\ ListLength(heap, d.back_) >= 2
  /\ ListLength(heap, d.front_) >= 1
  /\ DequeIndex(heap, d, ListLength(heap, d.front_)).err = "none"

\* C7: Deque::FromList(list).ToList() reads as list, for every list, where
\* FromList keeps the first Length(list)/2 elements in front_ and the rest,
\* reversed, in back_.
C7_RoundTrip ==
  client = "list" =>
    /\ res.op = "FromList.ToList" =>
         res.err = "none" /\ ToSeq(heap, la) = res.recv
    /\ \A l \in {la, lb, nullptr} :
         LET s == ToSeq(heap, l)
             n == Len(s) \div 2
             f == FromList(heap, l)
         IN /\ f.err = "none"
            /\ ToSeq(f.heap, f.dq.front_) = SubSeq(s, 1, n)
            /\ ToSeq(f.heap, f.dq.back_) = Rev(SubSeq(s, n + 1, Len(s)))
            /\ DequeToSeq(f.heap, f.dq) = s

\* The round trip has run on a list of three elements.
C7_Witness ==
  client = "list" /\ res.op = "FromList.ToList" /\ Len(res.recv) = 3

\* C8: Init(Snoc(list, x)) reads as list and Last(Snoc(list, x)) is x, for
\* every list; and d.Snoc(x).Init().ToList() reads as d.ToList() for every
\* reachable deque d.
C8_SnocInitInverse ==
  res.op = "Snoc" =>
    /\ client = "list" =>
         LET i == ListInit(heap, la)
         IN /\ i.err = "none"
            /\ ToSeq(i.heap, i.ptr) = res.recv
            /\ ListLast(heap, la) = [val |-> res.x, err |-> "none"]
    /\ client = "deque" =>
         LET i == DequeInit(heap, d)
         IN /\ i.err = "none"
            /\ DequeToSeq(i.heap, i.dq) = res.recv

\* The part of C8 that holds: the list.
C8_ListSnocInit ==
  (client = "list" /\ res.op = "Snoc") =>
    LET i == ListInit(heap, la)
    IN /\ i.err = "none"
       /\ ToSeq(i.heap, i.ptr) = res.recv
       /\ ListLast(heap, la) = [val |-> res.x, err |-> "none"]

\* The pointer reached from list after k steps along next_.
RECURSIVE Chain(_, _, _)
Chain(h, list, k) == IF k = 0 THEN list ELSE Chain(h, h[list].next, k - 1)

\* C9: Append(A, B) reads as the elements of A followed by those of B, its
\* length is the sum of their lengths, Append(list, Empty()) and
\* Append(Empty(), list) read as list, the first Length(A) nodes of the result
\* are new nodes and the node after them is B itself.
C9_ListAppend ==
  client = "list" =>
    /\ res.op = "Append" =>
         /\ res.err = "none"
         /\ ToSeq(heap, la) = res.recv \o res.arg
         /\ ListLength(heap, la) = Len(res.recv) + Len(res.arg)
    /\ \A a \in {la, lb, nullptr} : \A b \in {la, lb, nullptr} :
         LET r == ListAppend(heap, a, b)
             n == ListLength(heap, a)
         IN /\ r.err = "none"
            /\ ToSeq(r.heap, r.ptr) = ToSeq(heap, a) \o ToSeq(heap, b)
            /\ ListLength(r.heap, r.ptr) = n + ListLength(heap, b)
            /\ ListIsEmpty(heap, b) => ToSeq(r.heap, r.ptr) = ToSeq(heap, a)
            /\ ListIsEmpty(heap, a) => ToSeq(r.heap, r.ptr) = ToSeq(heap, b)
            /\ \A k \in 0..(n - 1) : Chain(r.heap, r.ptr, k) > Len(heap)
            /\ Chain(r.heap, r.ptr, n) = b

\* Append has run on a receiver of two elements with a non-empty argument.
C9_Witness ==
  /\ client = "list" /\ res.op = "Append" /\ res.err = "none"
  /\ Len(res.recv) = 2
  /\ Len(res.arg) >= 1

\* C10: RebalancedIfNecessary returns the deque it is given when that is
\* empty, holds one element or has both sides non-empty; given one empty side
\* and n >= 2 elements on the other it returns a deque with n/2 elements on
\* one side and the rest on the other, both non-empty, that reads the same.
C10_Rebalancing ==
  (client = "deque" /\ res.op \in {"Tail", "Init"} /\ res.mid # NoDeque) =>
    LET m  == res.mid
        fl == ListLength(heap, m.front_)
        bl == ListLength(heap, m.back_)
        n  == fl + bl
    IN /\ res.err = "none"
       /\ (n <= 1 \/ BothNonEmpty(heap, m)) => d = m
       /\ (n >= 2 /\ ~BothNonEmpty(heap, m)) =>
            /\ BothNonEmpty(heap, d)
            /\ {ListLength(heap, d.front_), ListLength(heap, d.back_)}
                 = {n \div 2, n - (n \div 2)}
            /\ DequeToSeq(heap, d) = DequeToSeq(heap, m)

----------------------------------------------------------------------------
(* Reclamation: the shared_ptr reference counts and ~LinkedList.           *)
(*                                                                         *)
(* main.cpp holds the list variables list, list1 and list2, which share    *)
(* tail nodes.  use_count[n] is the number of shared_ptr that own node n   *)
(* (list variables and next_ members), destroyed[n] the number of times    *)
(* node n was destroyed and its storage reclaimed.  A memory is the record *)
(* [heap, use_count, destroyed].                                           *)

\* Bound of the reclamation client: the nodes it allocates.
MaxNodes == 5

ListNames == {"list", "list1", "list2"}

Memory(h, uc, ds) == [heap |-> h, use_count |-> uc, destroyed |-> ds]

\* Copying a shared_ptr: one more owner.
Acquire(st, p) ==
  IF p = nullptr THEN st ELSE [st EXCEPT !.use_count[p] = @ + 1]

RECURSIVE Release(_, _)
RECURSIVE LinkedListDestructor(_, _)
RECURSIVE DestructorLoop(_, _)
RECURSIVE DestructorLoopShared(_, _)

\* Resetting or destroying a shared_ptr: one owner fewer, and the node is
\* destroyed when that was the last.
Release(st, p) ==
  IF p = nullptr THEN st
  ELSE LET s1 == [st EXCEPT !.use_count[p] = @ - 1]
       IN IF s1.use_count[p] = 0 THEN LinkedListDestructor(s1, p) ELSE s1

\* The loop without its test of cur.unique().
DestructorLoopShared(st, cur) ==
  IF cur # nullptr
  THEN LET next == st.heap[cur].next
           s1   == [st EXCEPT !.heap[cur].next = nullptr]
           s2   == Release(s1, cur)
       IN DestructorLoopShared(s2, next)
  ELSE st

\* while (cur != nullptr && cur.unique()): next is moved out of cur->next_,
\* cur.reset() destroys the node, cur = next.  When the loop ends cur goes
\* out of scope.
DestructorLoop(st, cur) ==
  IF cur # nullptr /\ st.use_count[cur] = 1
  THEN LET next == st.heap[cur].next
           s1   == [st EXCEPT !.heap[cur].next = nullptr]
           s2   == Release(s1, cur)
       IN DestructorLoop(s2, next)
  ELSE Release(st, cur)

\* ~LinkedList on node p: cur is moved out of next_, the loop runs, then the
\* member next_ is destroyed and the node's storage is reclaimed.
LinkedListDestructor(st, p) ==
  LET cur == st.heap[p].next
      s1  == [st EXCEPT !.heap[p].next = nullptr]
      s2  == DestructorLoop(s1, cur)
      s3  == Release(s2, s2.heap[p].next)
  IN [s3 EXCEPT !.destroyed[p] = @ + 1]

\* Empty() with its count: the shared_ptr returned owns the new node.
SharedEmpty(st) ==
  LET emp == ListEmpty(st.heap)
  IN [st  |-> Memory(emp.heap, Append(st.use_count, 1), Append(st.destroyed, 0)),
      ptr |-> emp.ptr]

\* Cons(element, list) with its counts: next_ is a copy of list.
SharedCons(st, element, list) ==
  LET c == ListCons(st.heap, element, list)
  IN [st  |-> Acquire(Memory(c.heap, Append(st.use_count, 1),
                             Append(st.destroyed, 0)), list),
      ptr |-> c.ptr]

\* Tail(list) with its counts: the shared_ptr returned is a copy of next_.
SharedTail(st, list) ==
  LET t == ListTail(st.heap, list)
  IN [st |-> IF t.err = "none" THEN Acquire(st, t.ptr) ELSE st,
      ptr |-> t.ptr, err |-> t.err]

ListVar(p, state, seq) == [ptr |-> p, state |-> state, seq |-> seq]

Store(st) ==
  /\ heap' = st.heap
  /\ use_count' = st.use_count
  /\ destroyed' = st.destroyed

Now == Memory(heap, use_count, destroyed)

RFrame == UNCHANGED <<client, la, lb, d, e, rd, re, res, ops>>

\* auto list = LinkedList<int>::Empty();
ReclaimInit ==
  /\ client = "reclaim"
  /\ ops = 0
  /\ res = Res("start", "none", <<>>, <<>>, 0, NoDeque)
  /\ la = nullptr /\ lb = nullptr
  /\ d = NoDeque /\ e = NoDeque /\ rd = <<>> /\ re = <<>>
  /\ LET emp == SharedEmpty(Memory(<<>>, <<>>, <<>>))
     IN /\ heap = emp.st.heap
        /\ use_count = emp.st.use_count
        /\ destroyed = emp.st.destroyed
        /\ lists = [v \in ListNames |->
                      IF v = "list" THEN ListVar(emp.ptr, "live", <<>>)
                      ELSE ListVar(nullptr, "undeclared", <<>>)]

\* v = LinkedList<int>::Cons(x, v): the result is moved into v, which
\* releases the pointer v held.
RCons(v, x) ==
  /\ lists[v].state = "live"
  /\ Len(heap) < MaxNodes
  /\ LET c == SharedCons(Now, x, lists[v].ptr)
     IN /\ Store(Release(c.st, lists[v].ptr))
        /\ lists' = [lists EXCEPT
                       ![v] = ListVar(c.ptr, "live", <<x>> \o lists[v].seq)]
  /\ RFrame

\* v = LinkedList<int>::Tail(v); a throw leaves v as it was.
RTail(v) ==
  /\ lists[v].state = "live"
  /\ LET t == SharedTail(Now, lists[v].ptr)
     IN IF t.err # "none"
        THEN UNCHANGED <<heap, use_count, destroyed, lists>>
        ELSE /\ Store(Release(t.st, lists[v].ptr))
             /\ lists' = [lists EXCEPT
                            ![v] = ListVar(t.ptr, "live", Tail(lists[v].seq))]
  /\ RFrame

\* auto v = w;
RDeclare(v, w) ==
  /\ lists[v].state = "undeclared"
  /\ lists[w].state = "live"
  /\ Store(Acquire(Now, lists[w].ptr))
  /\ lists' = [lists EXCEPT ![v] = ListVar(lists[w].ptr, "live", lists[w].seq)]
  /\ RFrame

\* v goes out of scope.
RDiscard(v) ==
  /\ lists[v].state = "live"
  /\ Store(Release(Now, lists[v].ptr))
  /\ lists' = [lists EXCEPT ![v] = ListVar(nullptr, "discarded", <<>>)]
  /\ RFrame

ReclaimNext ==
  \/ \E v \in ListNames : \E x \in Elem : RCons(v, x)
  \/ \E v \in ListNames : RTail(v)
  \/ \E v \in ListNames : \E w \in ListNames : RDeclare(v, w)
  \/ \E v \in ListNames : RDiscard(v)

SpecReclaim == ReclaimInit /\ [][ReclaimNext]_vars

\* The nodes a pointer reaches along next_, itself included.
RECURSIVE ChainNodes(_, _)
ChainNodes(h, p) ==
  IF p = nullptr THEN {} ELSE {p} \cup ChainNodes(h, h[p].next)

LiveNames == {v \in ListNames : lists[v].state = "live"}

Referenced == UNION {ChainNodes(heap, lists[v].ptr) : v \in LiveNames}

\* The owners of node n: the live variables that point to it and the next_
\* members of the nodes not destroyed.
Owners(n) ==
  Cardinality({v \in LiveNames : lists[v].ptr = n})
    + Cardinality({m \in 1..Len(heap) : destroyed[m] = 0 /\ heap[m].next = n})

\* C11: with list variables that share tail nodes discarded in any order, a
\* node that a live list reaches, directly or along a tail chain, is not
\* reclaimed, and every live list reads all the elements it was given; a
\* node that no live list reaches has been reclaimed, exactly once; and
\* use_count, which the destructor's loop tests, is the number of owners.
C11_NodeReclamation ==
  client = "reclaim" =>
    /\ \A v \in LiveNames :
         /\ ToSeq(heap, lists[v].ptr) = lists[v].seq
         /\ \A n \in ChainNodes(heap, lists[v].ptr) :
              destroyed[n] = 0 /\ use_count[n] >= 1
    /\ \A n \in 1..Len(heap) :
         /\ destroyed[n] <= 1
         /\ n \notin Referenced => (destroyed[n] = 1 /\ use_count[n] = 0)
         /\ destroyed[n] = 0 => use_count[n] = Owners(n)

\* One variable was discarded and its own nodes reclaimed, up to the node
\* that a live list of two elements or more still shares.
C11_Witness ==
  /\ client = "reclaim"
  /\ \E v \in ListNames : lists[v].state = "discarded"
  /\ \E n \in 1..Len(heap) : destroyed[n] = 1 /\ heap[n].has_value
  /\ \E v \in LiveNames :
       /\ Len(lists[v].seq) >= 2
       /\ \E n \in ChainNodes(heap, lists[v].ptr) : use_count[n] >= 2

====
